---- MODULE Spec2Model ----
(***************************************************************************)
(* Model of the PDF export pipeline of src/src/App.tsx: the report store   *)
(* and marker form (handleAddMarker, the delete control), the asynchronous *)
(* exportPDF handler with its two suspension points (the settling delay    *)
(* and the html2canvas call), the inline style of the captured map region, *)
(* the composed jsPDF document and the acknowledgments shown to the user.  *)
(***************************************************************************)
EXTENDS Integers, Sequences, FiniteSets, TLC

(***************************************************************************)
(* Bounds of the model.                                                    *)
(***************************************************************************)
\* Reports created in one page session.
MaxCreated == 2
\* exportPDF invocations that can be suspended at the same time.
MaxPipelines == 2
\* Invocations of exportPDF in one page session.
MaxCalls == 2

(***************************************************************************)
(* IEEE-754 binary64 division.  JavaScript numbers are doubles; the two    *)
(* divisions of the aspect-ratio computation round.  A natural below 2^55  *)
(* is a pair <<hi, lo>> = hi * 2^27 + lo with lo < 2^27, so that every     *)
(* intermediate value fits a 32-bit integer.  A positive normal double is  *)
(* [m |-> <<hi, lo>>, e |-> e] = m * 2^e with 2^52 <= m < 2^53.            *)
(***************************************************************************)
Limb == 2^27

Big(n) == <<n \div Limb, n % Limb>>

BigDbl(x) == <<2 * x[1] + (2 * x[2]) \div Limb, (2 * x[2]) % Limb>>

BigGeq(x, y) == x[1] > y[1] \/ (x[1] = y[1] /\ x[2] >= y[2])

BigSub(x, y) ==
    IF x[2] >= y[2] THEN <<x[1] - y[1], x[2] - y[2]>>
                    ELSE <<x[1] - y[1] - 1, x[2] + Limb - y[2]>>

BigInc(x) == IF x[2] + 1 = Limb THEN <<x[1] + 1, 0>> ELSE <<x[1], x[2] + 1>>

\* One step of scaling n and d by powers of two towards d <= n < 2d; k is
\* the shift, the quotient of the scaled pair times 2^k being n / d.
AlignStep(a) ==
    IF ~BigGeq(a.n, a.d)
    THEN [n |-> BigDbl(a.n), d |-> a.d, k |-> a.k - 1]
    ELSE IF BigGeq(a.n, BigDbl(a.d))
    THEN [n |-> a.n, d |-> BigDbl(a.d), k |-> a.k + 1]
    ELSE a

\* steps alignment steps.  The halves are bound through singleton sets so
\* that each is evaluated once and the evaluation stays shallow.
RECURSIVE AlignSteps(_, _)
AlignSteps(a, steps) ==
    IF steps = 1 THEN AlignStep(a)
    ELSE CHOOSE v \in {AlignSteps(b, steps - steps \div 2) :
                          b \in {AlignSteps(a, steps \div 2)}} : TRUE

\* One step of restoring division: the next quotient bit of r / d appended
\* to m, and the remainder it leaves (r < d).
QuotStep(q) ==
    LET r2  == BigDbl(q.r)
        one == BigGeq(r2, q.d)
    IN  [r |-> IF one THEN BigSub(r2, q.d) ELSE r2,
         m |-> <<BigDbl(q.m)[1], BigDbl(q.m)[2] + (IF one THEN 1 ELSE 0)>>,
         d |-> q.d]

RECURSIVE QuotSteps(_, _)
QuotSteps(q, steps) ==
    IF steps = 1 THEN QuotStep(q)
    ELSE CHOOSE v \in {QuotSteps(b, steps - steps \div 2) :
                          b \in {QuotSteps(q, steps \div 2)}} : TRUE

\* Round to nearest, ties to even, on the remainder r of a division by d.
RoundNearestEven(m, r, d, e) ==
    LET r2 == BigDbl(r)
        up == IF r2 = d THEN m[2] % 2 = 1 ELSE BigGeq(r2, d)
        m1 == IF up THEN BigInc(m) ELSE m
    IN  IF m1 = <<Limb \div 2, 0>>
        THEN [m |-> <<Limb \div 4, 0>>, e |-> e + 1]
        ELSE [m |-> m1, e |-> e]

\* The double nearest to the quotient of an aligned pair a: the leading
\* bit, 52 more quotient bits, and the rounding.
FlQuotient(a) ==
    CHOOSE v \in {RoundNearestEven(q.m, q.r, a.d, a.k - 52) :
                    q \in {QuotSteps([r |-> BigSub(a.n, a.d), m |-> <<0, 1>>,
                                      d |-> a.d], 52)}} : TRUE

\* The double nearest to n / d, for naturals 0 < n, d < 2^53 given as pairs.
FlDiv(n, d) ==
    CHOOSE v \in {FlQuotient(a) :
                    a \in {AlignSteps([n |-> n, d |-> d, k |-> 0], 54)}} : TRUE

\* x / y for a natural x and a double y: x / (m * 2^e) = (x / m) * 2^(-e).
FlDivNatByDouble(x, y) ==
    CHOOSE v \in {[m |-> q.m, e |-> q.e - y.e] : q \in {FlDiv(Big(x), y.m)}} :
        TRUE

\* The neighbouring doubles of a positive normal double.
FlSucc(x) ==
    IF BigInc(x.m) = <<Limb \div 2, 0>>
    THEN [m |-> <<Limb \div 4, 0>>, e |-> x.e + 1]
    ELSE [m |-> BigInc(x.m), e |-> x.e]

FlPred(x) ==
    IF x.m = <<Limb \div 4, 0>>
    THEN [m |-> <<Limb \div 2 - 1, Limb - 1>>, e |-> x.e - 1]
    ELSE [m |-> IF x.m[2] = 0 THEN <<x.m[1] - 1, Limb - 1>>
                              ELSE <<x.m[1], x.m[2] - 1>>,
          e |-> x.e]

(***************************************************************************)
(* Values of the program.                                                  *)
(***************************************************************************)
Null == "null"

\* Points of the map a click can select (latitude, longitude in 1e-2 deg).
Clickable == {<<5220, 863>>}

Categories == {"Gefahr", "Sicher"}

\* A description is represented by the number of lines that
\* splitTextToSize(`Beschreibung: ${description}`, 170) wraps it to; the
\* empty description wraps to the single line "Beschreibung: ".
EmptyDescription == 1
Descriptions == {1, 50}

\* Pixel sizes of the canvas html2canvas can return (scale 2 of the
\* requested 1200 x 800, and a size that differs from it).
CanvasSizes == {<<2400, 1600>>, <<2380, 1600>>}

\* Stages of the synchronous tail of exportPDF that can throw.
Faults == {"none", "encode", "compose", "save"}

NoDoc == [pages |-> 0]

\* Inline style of the map region's element (no style attribute in the JSX).
InitialStyle ==
    [width |-> "", height |-> "", position |-> "", top |-> "", left |-> ""]

captureWidth == 1200
captureHeight == 800

\* The style forced on the region for the capture.
CaptureStyle(s) ==
    [s EXCEPT !.width = "1200px", !.height = "800px",
              !.position = "fixed", !.top = "-10000px", !.left = "-10000px"]

\* What exportPDF remembers of the style before it changes it.
SaveOriginal(s) ==
    [originalWidth |-> s.width, originalHeight |-> s.height,
     originalPosition |-> s.position]

\* The statements that follow a returned html2canvas call.
RestoreStyle(s, o) ==
    [s EXCEPT !.width = o.originalWidth, !.height = o.originalHeight,
              !.position = o.originalPosition, !.top = "", !.left = ""]

(***************************************************************************)
(* Document composition (the jsPDF calls of exportPDF).  A document is its *)
(* page count, the placed image and the sequence of drawing calls of the   *)
(* footer and of the report pages, each with the page it lands on.  The    *)
(* banner, captions and the ruled box of page 1 take no part in the page   *)
(* count or in the report cursor and are left out.                         *)
(***************************************************************************)
pdfWidth == 170
xOffset == 20
ImageTop == 60
PageHeight == 297
TopMargin == 20
HeadingAdvance == 10
BreakThreshold == 260
LabelOffset == 5
DescriptionOffset == 7
LinePitch == 5
BlockGap == 5
FirstFooterY == 287
FooterY == 285
FooterText == "SPD Kirchlengern - Gemeinsam fuer Sicherheit"

\* Variant of PdfHeight: the aspect ratio of the requested capture geometry.
PdfHeightOfRequest(canvasWidth, canvasHeight) ==
    LET aspectRatio == FlDiv(Big(captureWidth), Big(captureHeight))
    IN  FlDivNatByDouble(pdfWidth, aspectRatio)

\* pdfHeight = pdfWidth / (canvas.width / canvas.height), in doubles.
PdfHeight(canvasWidth, canvasHeight) ==
    LET aspectRatio == FlDiv(Big(canvasWidth), Big(canvasHeight))
    IN  FlDivNatByDouble(pdfWidth, aspectRatio)

\* pdfHeight for each canvas size of the model, computed once.
PdfHeights == [c \in CanvasSizes |-> PdfHeight(c[1], c[2])]

Op(kind, page, y, block, lines, text, color) ==
    [kind |-> kind, page |-> page, y |-> y, block |-> block,
     lines |-> lines, text |-> text, color |-> color]

CategoryColor(c) == IF c = "Gefahr" THEN <<185, 28, 28>> ELSE <<4, 120, 87>>

ToUpperCase(c) == IF c = "Gefahr" THEN "GEFAHR" ELSE "SICHER"

\* The page break test made before each block.
NeedsNewPage(yPos) == yPos > BreakThreshold

\* Variant of ReportBlock: a description that would run past the page bottom
\* is moved to the next page on its own.
ReportBlockSplit(r, i, yPos, page) ==
    LET yDesc == yPos + LabelOffset + DescriptionOffset
        over  == yDesc + LinePitch * (r.description - 1) > PageHeight
    IN  << Op("separator", page, yPos, i, 0, <<0, "">>, <<241, 245, 249>>),
           Op("label", page, yPos + LabelOffset, i, 1,
              <<i, ToUpperCase(r.category)>>, CategoryColor(r.category)),
           Op("location", page, yPos + LabelOffset, i, 1,
              <<0, r.locationName>>, <<51, 65, 85>>),
           Op("source", page, yPos + LabelOffset, i, 1, <<0, r.source>>,
              <<51, 65, 85>>),
           Op("description", IF over THEN page + 1 ELSE page,
              IF over THEN TopMargin ELSE yDesc, i,
              r.description, <<0, "Beschreibung">>, <<51, 65, 85>>) >>

\* The drawing calls of one report block, written at cursor yPos on page.
ReportBlock(r, i, yPos, page) ==
    << Op("separator", page, yPos, i, 0, <<0, "">>, <<241, 245, 249>>),
       Op("label", page, yPos + LabelOffset, i, 1,
          <<i, ToUpperCase(r.category)>>, CategoryColor(r.category)),
       Op("location", page, yPos + LabelOffset, i, 1,
          <<0, r.locationName>>, <<51, 65, 85>>),
       Op("source", page, yPos + LabelOffset, i, 1, <<0, r.source>>,
          <<51, 65, 85>>),
       Op("description", page, yPos + LabelOffset + DescriptionOffset, i,
          r.description, <<0, "Beschreibung">>, <<51, 65, 85>>) >>

\* The cursor after a block written at yPos.
AfterBlock(r, yPos) ==
    yPos + LabelOffset + DescriptionOffset + r.description * LinePitch + BlockGap

\* reports.forEach: blocks i.. of rs, from cursor yPos on page.
RECURSIVE LayoutReports(_, _, _, _, _)
LayoutReports(rs, i, yPos, page, ops) ==
    IF i > Len(rs) THEN [pages |-> page, ops |-> ops]
    ELSE LET brk == NeedsNewPage(yPos)
             pg  == IF brk THEN page + 1 ELSE page
             y   == IF brk THEN TopMargin ELSE yPos
         IN  LayoutReports(rs, i + 1, AfterBlock(rs[i], y), pg,
                           ops \o ReportBlock(rs[i], i, y, pg))

\* The reports section: nothing for an empty list, else a new page with the
\* heading and the blocks.
ReportsSection(rs) ==
    IF Len(rs) > 0
    THEN LayoutReports(rs, 1, TopMargin + HeadingAdvance, 2,
             << Op("heading", 2, TopMargin, 0, 1,
                   <<0, "Bereits erfasste Meldungen">>, <<15, 23, 42>>) >>)
    ELSE [pages |-> 1, ops |-> << >>]

\* The footer drawn while page 1 is composed.
FirstFooter ==
    << Op("footer", 1, FirstFooterY, 0, 1, <<0, FooterText>>,
          <<148, 163, 184>>) >>

\* The final pass that stamps the footer on every page.
FooterPass(pageCount) ==
    [i \in 1..pageCount |->
        Op("footer", i, FooterY, 0, 1, <<0, FooterText>>, <<148, 163, 184>>)]

\* The document exportPDF builds from a canvas and the reports it sees.
Compose(canvas, rs) ==
    LET section == ReportsSection(rs)
    IN  [pages |-> section.pages,
         image |-> [canvasWidth |-> canvas[1], canvasHeight |-> canvas[2],
                    x |-> xOffset, y |-> ImageTop, width |-> pdfWidth,
                    height |-> PdfHeights[canvas]],
         ops   |-> FirstFooter \o section.ops \o FooterPass(section.pages)]

(***************************************************************************)
(* State.                                                                  *)
(***************************************************************************)
VARIABLES
    position,      \* useState: the point selected on the map, or null
    description,   \* useState: the description typed in the form
    category,      \* useState: the category selected in the form
    isProcessing,  \* useState: the busy flag that disables the export control
    reports,       \* useState: the report store, as the UI lists it
    mapRef,        \* useRef: TRUE when mapRef.current is the region's element
    style,         \* the inline style of the region's element
    clock,         \* reports created so far (orders ids and timestamps)
    pc,            \* per invocation slot: where exportPDF is suspended
    closure,       \* per slot: the reports of the render exportPDF closed over
    original,      \* per slot: originalWidth, originalHeight, originalPosition
    preStyle,      \* per slot: the style when the invocation started
    thrown,        \* per slot: the stage that threw in the finished invocation
    alerts,        \* per slot: the alert() calls of the invocation
    rejected,      \* per slot: TRUE when the promise of exportPDF rejected
    saved,         \* per slot: the document handed to pdf.save, or NoDoc
    storeChanged,  \* per slot: TRUE when the invocation ended with a report
                   \* store other than the one it was invoked with
    calls          \* invocations of exportPDF so far

vars == <<position, description, category, isProcessing, reports, mapRef,
          style, clock, pc, closure, original, preStyle, thrown, alerts,
          rejected, saved, storeChanged, calls>>

form == <<position, description, category>>
slots == <<pc, closure, original, preStyle, thrown, alerts, rejected, saved,
           storeChanged>>

Pipelines == 1..MaxPipelines

NoOriginal == SaveOriginal(InitialStyle)

Init ==
    /\ position = Null
    /\ description = EmptyDescription
    /\ category = "Gefahr"
    /\ isProcessing = FALSE
    /\ reports = << >>
    /\ mapRef = FALSE
    /\ style = InitialStyle
    /\ clock = 0
    /\ pc = [p \in Pipelines |-> "idle"]
    /\ closure = [p \in Pipelines |-> << >>]
    /\ original = [p \in Pipelines |-> NoOriginal]
    /\ preStyle = [p \in Pipelines |-> InitialStyle]
    /\ thrown = [p \in Pipelines |-> "n/a"]
    /\ alerts = [p \in Pipelines |-> << >>]
    /\ rejected = [p \in Pipelines |-> FALSE]
    /\ saved = [p \in Pipelines |-> NoDoc]
    /\ storeChanged = [p \in Pipelines |-> FALSE]
    /\ calls = 0

(***************************************************************************)
(* The form and the report store.                                          *)
(***************************************************************************)
\* React attaches the region's element to mapRef when App is mounted; until
\* then mapRef.current is the null of useRef(null).  The map, the form and
\* the report list are part of the mounted tree, so their events need it.
AttachMapRef ==
    /\ ~mapRef
    /\ mapRef' = TRUE
    /\ UNCHANGED <<form, isProcessing, reports, style, clock, slots, calls>>

\* LocationMarker: a click on the map selects the point.
MapClick(pos) ==
    /\ mapRef
    /\ position' = pos
    /\ UNCHANGED <<description, category, isProcessing, reports, mapRef,
                   style, clock, slots, calls>>

SetCategory(c) ==
    /\ mapRef
    /\ category' = c
    /\ UNCHANGED <<position, description, isProcessing, reports, mapRef,
                   style, clock, slots, calls>>

SetDescription(d) ==
    /\ mapRef
    /\ description' = d
    /\ UNCHANGED <<position, category, isProcessing, reports, mapRef,
                   style, clock, slots, calls>>

NewReport(n, pos, cat, desc) ==
    [id |-> n, timestamp |-> n, source |-> "Digital", coordinates |-> pos,
     locationName |-> "Manuelle Auswahl", category |-> cat,
     description |-> desc, confidenceScore |-> 1]

\* setReports([newReport, ...reports])
StoreAdd(newReport, rs) == <<newReport>> \o rs

handleAddMarker ==
    /\ mapRef
    /\ position # Null
    /\ clock < MaxCreated
    /\ clock' = clock + 1
    /\ reports' = StoreAdd(NewReport(clock + 1, position, category,
                                     description), reports)
    /\ position' = Null
    /\ description' = EmptyDescription
    /\ UNCHANGED <<category, isProcessing, mapRef, style, slots, calls>>

\* reports.filter(r => r.id !== report.id)
StoreDelete(id, rs) == SelectSeq(rs, LAMBDA r : r.id # id)

DeleteReport(k) ==
    /\ mapRef
    /\ k \in 1..Len(reports)
    /\ reports' = StoreDelete(reports[k].id, reports)
    /\ UNCHANGED <<form, isProcessing, mapRef, style, clock, slots, calls>>

(***************************************************************************)
(* exportPDF.  The handler runs to its first await in the click event, and *)
(* React commits the state it set before the next event is dispatched; it  *)
(* resumes after the settling delay, and again when html2canvas settles.   *)
(***************************************************************************)
\* Variant of ExportEnabled: the control is never disabled.
ExportAlwaysEnabled == TRUE

\* The export control: disabled={isProcessing}.
ExportEnabled == ~isProcessing

\* Variant of RegionPresent: the reference is not tested.
RegionAssumed == TRUE

\* if (!mapRef.current) return;
RegionPresent == mapRef

\* The slot a new invocation takes.
FreeSlot(p) == pc[p] = "idle" /\ \A q \in Pipelines : q < p => pc[q] # "idle"

\* Variant of Catch: the error is passed on without an acknowledgment.
CatchAndRethrow(fault) ==
    [saved |-> NoDoc, alerts |-> << >>, rejected |-> TRUE]

\* catch (error) { console.error(...); alert('Fehler ...') }
Catch(fault) == [saved |-> NoDoc, alerts |-> <<"failure">>, rejected |-> FALSE]

\* The rest of the try block after the style is restored: encode the canvas,
\* compose, save, acknowledge; a throw of any of them lands in the catch.
TryTail(canvas, rs, fault) ==
    IF fault = "none"
    THEN [saved |-> Compose(canvas, rs), alerts |-> <<"success">>,
          rejected |-> FALSE]
    ELSE Catch(fault)

\* Variant of Finally: the flag is cleared at the end of the try block only.
FinallyOnSuccessOnly(fault) == fault # "none"

\* finally { setIsProcessing(false) }: the value the busy flag gets.
Finally(fault) == FALSE

\* Variant of RenderedReports: the store as it is when the handler resumes.
LiveReports(p) == reports

\* The reports the report section iterates: the `reports` of the render whose
\* exportPDF was invoked, a constant of that closure.
RenderedReports(p) == closure[p]

\* A click on the export control: exportPDF up to its first await.
ExportPDF(p) ==
    /\ ExportEnabled
    /\ FreeSlot(p)
    /\ calls < MaxCalls
    /\ calls' = calls + 1
    /\ IF ~RegionPresent
       THEN UNCHANGED <<form, isProcessing, reports, mapRef, style, clock,
                        slots>>
       ELSE /\ isProcessing' = TRUE
            /\ original' = [original EXCEPT ![p] = SaveOriginal(style)]
            /\ style' = CaptureStyle(style)
            /\ closure' = [closure EXCEPT ![p] = reports]
            /\ preStyle' = [preStyle EXCEPT ![p] = style]
            /\ thrown' = [thrown EXCEPT ![p] = "n/a"]
            /\ alerts' = [alerts EXCEPT ![p] = << >>]
            /\ rejected' = [rejected EXCEPT ![p] = FALSE]
            /\ saved' = [saved EXCEPT ![p] = NoDoc]
            /\ storeChanged' = [storeChanged EXCEPT ![p] = FALSE]
            /\ pc' = [pc EXCEPT ![p] = "delay"]
            /\ UNCHANGED <<form, reports, mapRef, clock>>

\* await new Promise(resolve => setTimeout(resolve, 1000)) resolves.
DelayElapsed(p) ==
    /\ pc[p] = "delay"
    /\ pc' = [pc EXCEPT ![p] = "raster"]
    /\ UNCHANGED <<form, isProcessing, reports, mapRef, style, clock, closure,
                   original, preStyle, thrown, alerts, rejected, saved,
                   storeChanged, calls>>

\* html2canvas resolves with a canvas: restore the style, then the rest of
\* the try block, the catch if a later stage throws, and the finally.
RasterReturn(p, canvas, fault) ==
    /\ pc[p] = "raster"
    /\ style' = RestoreStyle(style, original[p])
    /\ LET t == TryTail(canvas, RenderedReports(p), fault)
       IN  /\ saved' = [saved EXCEPT ![p] = t.saved]
           /\ alerts' = [alerts EXCEPT ![p] = t.alerts]
           /\ rejected' = [rejected EXCEPT ![p] = t.rejected]
    /\ thrown' = [thrown EXCEPT ![p] = fault]
    /\ storeChanged' = [storeChanged EXCEPT ![p] = (reports # closure[p])]
    /\ isProcessing' = Finally(fault)
    /\ pc' = [pc EXCEPT ![p] = "idle"]
    /\ UNCHANGED <<form, reports, mapRef, clock, closure, original, preStyle,
                   calls>>

\* html2canvas rejects: the catch and the finally.
RasterThrow(p) ==
    /\ pc[p] = "raster"
    /\ LET t == Catch("raster")
       IN  /\ saved' = [saved EXCEPT ![p] = t.saved]
           /\ alerts' = [alerts EXCEPT ![p] = t.alerts]
           /\ rejected' = [rejected EXCEPT ![p] = t.rejected]
    /\ thrown' = [thrown EXCEPT ![p] = "raster"]
    /\ storeChanged' = [storeChanged EXCEPT ![p] = (reports # closure[p])]
    /\ isProcessing' = Finally("raster")
    /\ pc' = [pc EXCEPT ![p] = "idle"]
    /\ UNCHANGED <<form, reports, mapRef, style, clock, closure, original,
                   preStyle, calls>>

Next ==
    \/ AttachMapRef
    \/ \E pos \in Clickable : MapClick(pos)
    \/ \E c \in Categories : SetCategory(c)
    \/ \E d \in Descriptions : SetDescription(d)
    \/ handleAddMarker
    \/ \E k \in 1..MaxCreated : DeleteReport(k)
    \/ \E p \in Pipelines : ExportPDF(p)
    \/ \E p \in Pipelines : DelayElapsed(p)
    \/ \E p \in Pipelines, canvas \in CanvasSizes, fault \in Faults :
          RasterReturn(p, canvas, fault)
    \/ \E p \in Pipelines : RasterThrow(p)

Spec == Init /\ [][Next]_vars

(***************************************************************************)
(* Properties.                                                             *)
(***************************************************************************)
Finished(p) == pc[p] = "idle" /\ thrown[p] # "n/a"

Exported(p) == Finished(p) /\ saved[p] # NoDoc

OpsOf(p) == saved[p].ops

\* C1: the step that ends an export attempt, by success or by a thrown
\* failure, leaves the element's width, height, position, top and left as
\* they were immediately before the export started.
C1_StyleRestoredOnEveryExit ==
    [][\A p \in Pipelines :
          (pc[p] # "idle" /\ pc'[p] = "idle") => style' = preStyle[p]]_vars

\* C2: whenever no export is suspended any more, on the success path and on
\* every failure path alike, isProcessing is false and the control enabled.
C2_IdleAfterEveryOutcome ==
    (\A p \in Pipelines : pc[p] = "idle") => (~isProcessing /\ ExportEnabled)

\* C2 witness: an export whose rasterizer call threw has ended and the
\* control is enabled again.
C2_Witness ==
    \E p \in Pipelines :
        /\ Finished(p) /\ thrown[p] = "raster"
        /\ \A q \in Pipelines : pc[q] = "idle"
        /\ ~isProcessing

\* C3: the separator, label, location/source line and description lines of
\* one report are drawn on the same page, and within the report pages a new
\* page starts only with the separator of a block.
C3_BlockOnOnePage ==
    \A p \in Pipelines : Exported(p) =>
        /\ \A i, j \in DOMAIN OpsOf(p) :
              (OpsOf(p)[i].block > 0 /\ OpsOf(p)[i].block = OpsOf(p)[j].block)
                  => OpsOf(p)[i].page = OpsOf(p)[j].page
        /\ \A i \in DOMAIN OpsOf(p) :
              (i > 1 /\ OpsOf(p)[i].kind # "footer"
                     /\ OpsOf(p)[i].page # OpsOf(p)[i - 1].page)
                  => OpsOf(p)[i].kind \in {"separator", "heading"}

\* C3 witness: a saved document in which a page break happened between two
\* blocks and one block has a description of 50 lines.
C3_Witness ==
    \E p \in Pipelines :
        /\ Exported(p) /\ saved[p].pages >= 3
        /\ \E i \in DOMAIN OpsOf(p) :
              OpsOf(p)[i].kind = "description" /\ OpsOf(p)[i].lines = 50

FootersOn(p, page) ==
    {i \in DOMAIN OpsOf(p) :
        OpsOf(p)[i].kind = "footer" /\ OpsOf(p)[i].page = page}

\* C4: a zero-report export produces exactly one page, and on it the footer
\* text appears exactly once, at the fixed footer position.
C4_ZeroReportsOnePageOneFooter ==
    \A p \in Pipelines : (Exported(p) /\ closure[p] = << >>) =>
        /\ saved[p].pages = 1
        /\ Cardinality(FootersOn(p, 1)) = 1
        /\ \A i \in FootersOn(p, 1) : OpsOf(p)[i].y = FooterY

\* The k-th created report among rs (timestamps are creation instants).
KthCreated(rs, k) ==
    CHOOSE r \in {rs[i] : i \in DOMAIN rs} :
        Cardinality({j \in DOMAIN rs : rs[j].timestamp < r.timestamp}) = k - 1

LabelOf(p, k) ==
    CHOOSE o \in {OpsOf(p)[i] : i \in DOMAIN OpsOf(p)} :
        o.kind = "label" /\ o.block = k

\* C5: the k-th block of the report pages is the k-th created report: it
\* carries that report's category label and colour.
C5_BlocksInCreationOrder ==
    \A p \in Pipelines : Exported(p) =>
        \A k \in 1..Len(closure[p]) :
            /\ LabelOf(p, k).text[2]
                   = ToUpperCase(KthCreated(closure[p], k).category)
            /\ LabelOf(p, k).color
                   = CategoryColor(KthCreated(closure[p], k).category)

\* The double nearest to pdfWidth * h / w, for each canvas size of the model.
NearestHeights ==
    [c \in CanvasSizes |-> FlDiv(Big(pdfWidth * c[2]), Big(c[1]))]

CanvasOf(p) == <<saved[p].image.canvasWidth, saved[p].image.canvasHeight>>

\* C6 as stated: the image is placed with width 170 and a height that is
\* exactly 170 * h / w (the double nearest to it) for the canvas's w and h.
C6_HeightExact ==
    \A p \in Pipelines : Exported(p) =>
        /\ saved[p].image.width = pdfWidth
        /\ saved[p].image.height = NearestHeights[CanvasOf(p)]

\* C6 amended: the image is placed with width 170 and the height
\* 170 / (w / h) of double arithmetic on the canvas's actual w and h, which is
\* the double nearest to 170 * h / w or one of its two neighbours.
C6_HeightWithinRounding ==
    \A p \in Pipelines : Exported(p) =>
        /\ saved[p].image.width = pdfWidth
        /\ saved[p].image.height \in
              {FlPred(NearestHeights[CanvasOf(p)]),
               NearestHeights[CanvasOf(p)],
               FlSucc(NearestHeights[CanvasOf(p)])}

\* C6 witness: a saved document whose canvas does not have the requested
\* 3:2 geometry.
C6_Witness ==
    \E p \in Pipelines :
        /\ Exported(p)
        /\ CanvasOf(p)[1] * captureHeight # CanvasOf(p)[2] * captureWidth

\* C7: a finished export has shown exactly one acknowledgment, the success
\* one exactly when no stage threw (and then the document was saved), the
\* failure one otherwise, and its promise did not reject; an export still
\* suspended has shown none.
C7_OneAcknowledgment ==
    \A p \in Pipelines :
        /\ Finished(p) =>
              /\ Len(alerts[p]) = 1
              /\ (alerts[p] = <<"success">>) <=> (thrown[p] = "none")
              /\ (alerts[p] = <<"failure">>) <=> (thrown[p] # "none")
              /\ (saved[p] # NoDoc) <=> (thrown[p] = "none")
              /\ ~rejected[p]
        /\ pc[p] # "idle" => alerts[p] = << >>

\* C7 witness: an export whose save step threw has ended with the failure
\* acknowledgment.
C7_Witness ==
    \E p \in Pipelines :
        Finished(p) /\ thrown[p] = "save" /\ alerts[p] = <<"failure">>

\* C8: at most one exportPDF pipeline is in flight.
C8_NoParallelExport ==
    Cardinality({p \in Pipelines : pc[p] # "idle"}) <= 1

\* C8 witness: an export is waiting for the rasterizer, the control is
\* disabled and no other slot is in flight.
C8_Witness ==
    \E p \in Pipelines :
        /\ pc[p] = "raster" /\ isProcessing /\ ~ExportEnabled
        /\ \A q \in Pipelines \ {p} : pc[q] = "idle"

\* C9: an invocation of exportPDF while the region reference is absent
\* changes neither the busy flag, the element style, the report store, the
\* position of any pipeline, the saved documents nor the acknowledgments.
C9_AbsentRegionNoOp ==
    [][(~mapRef /\ calls' # calls) =>
          UNCHANGED <<isProcessing, style, reports, pc, saved, alerts,
                      closure, form>>]_vars

\* C9 witness: exportPDF has been invoked with the reference absent; nothing
\* is busy, saved or acknowledged.
C9_Witness ==
    /\ ~mapRef /\ calls > 0
    /\ ~isProcessing /\ style = InitialStyle
    /\ \A p \in Pipelines : saved[p] = NoDoc /\ alerts[p] = << >>

\* C10: every line of every written block lies within the page: the last
\* description line, at yPos + 12 + 5 * (lines - 1), is at or above 297.
C10_BlocksWithinPage ==
    \A p \in Pipelines : Exported(p) =>
        \A i \in DOMAIN OpsOf(p) :
            OpsOf(p)[i].kind = "description" =>
                OpsOf(p)[i].y + LinePitch * (OpsOf(p)[i].lines - 1)
                    <= PageHeight

\* The report blocks of a saved document: for each block its label, its
\* colour and the line count of its description.
BlocksOf(p) ==
    {<<o.block, o.kind, o.text, o.color, o.lines>> :
        o \in {OpsOf(p)[i] : i \in {j \in DOMAIN OpsOf(p) :
                  OpsOf(p)[j].kind \in {"label", "description"}}}}

\* The blocks a report list rs gives, in its order.
BlocksFor(rs) ==
    {<<k, "label", <<k, ToUpperCase(rs[k].category)>>,
       CategoryColor(rs[k].category), 1>> : k \in DOMAIN rs}
    \cup {<<k, "description", <<0, "Beschreibung">>, <<51, 65, 85>>,
            rs[k].description>> : k \in DOMAIN rs}

\* C11: the report blocks of an export's document are those of the report
\* list as it was when exportPDF was invoked, whatever was added or deleted
\* while it was suspended, and no step of exportPDF changes the report store.
C11_RendersInvocationSnapshot ==
    /\ [](\A p \in Pipelines :
            Exported(p) => BlocksOf(p) = BlocksFor(closure[p]))
    /\ [][(pc' # pc \/ calls' # calls) => reports' = reports]_vars

\* C11 witness: a document was saved by an export of a non-empty list during
\* whose suspension a report was added or deleted; it shows the list as it
\* was at the invocation.
C11_Witness ==
    \E p \in Pipelines :
        /\ Exported(p)
        /\ closure[p] # << >>
        /\ storeChanged[p]
        /\ BlocksOf(p) = BlocksFor(closure[p])

====
